---- MODULE Spec2Model ----
(***************************************************************************)
(* State-machine model of the parallels suggester of                       *)
(* myth-parallels-server/server.js (the second, "improved                  *)
(* parallels.suggest" revision, lines 388-898): the suggest cache, the     *)
(* routes that read and invalidate it, and the scoring pipeline.           *)
(*                                                                         *)
(* Representation.                                                         *)
(*  - A JavaScript string is a sequence of lexemes: a word (an atomic      *)
(*    TLA+ string of [A-Za-z0-9] characters), a blank " ", or one of the   *)
(*    punctuation marks [ ] { } , and the double quote.  "The Flood" is    *)
(*    <<"The", " ", "Flood">>.                                             *)
(*  - A tags/themes column value is [t |-> "null"], [t |-> "array",        *)
(*    items |-> <<string, ...>>] or [t |-> "string", s |-> string].        *)
(*  - A request-body value (mythId, mythA, mythB) is a record with         *)
(*    t \in {"undefined", "string", "number"}; a number is int + half/2    *)
(*    so that 1.5 is [int |-> 1, half |-> 1].                              *)
(*  - Scores are fixed point, in units of 1/10000.                         *)
(*  - Each HTTP request is a slot of req; an async handler is one action   *)
(*    per run-to-completion segment between two awaits, and the store      *)
(*    answers a query in a step of its own.                                *)
(***************************************************************************)
EXTENDS Integers, Sequences, FiniteSets, TLC

VARIABLES
  now,            \* Date.now(), in ms
  myths,          \* the store's myths table (with denormalized themes), ORDER BY id
  parallels,      \* the store's parallels table, as the set of <<myth_a, myth_b>>
  SUGGEST_CACHE,  \* server.js:492, [value, ttlMs]
  req,            \* the HTTP requests, one record per slot
  dropped,        \* history: line 690 has run and buildOrGetCache was not called since
  calc,           \* the scoring loop run on measures given directly (ScoreOne, Rank*)
  stale           \* history: what was fetched before the latest INSERT of line 686

vars == <<now, myths, parallels, SUGGEST_CACHE, req, dropped, calc, stale>>

(***************************************************************************)
(* Bounds of the model.                                                    *)
(***************************************************************************)
MaxTicks == 2        \* the clock stops after MaxTicks ticks
TickMs == 150000     \* one tick of the clock, in ms

\* The request slots: at most two requests are in flight at the same time
Req == {1, 2}

Null == [t |-> "null"]

(***************************************************************************)
(* Strings as lexeme sequences.                                            *)
(***************************************************************************)
Punct == {" ", "[", "]", "{", "}", ",", "\""}

RECURSIVE TrimLeft(_)
TrimLeft(s) == IF s # <<>> /\ Head(s) = " " THEN TrimLeft(Tail(s)) ELSE s

RECURSIVE TrimRight(_)
TrimRight(s) ==
  IF s # <<>> /\ s[Len(s)] = " " THEN TrimRight(SubSeq(s, 1, Len(s) - 1)) ELSE s

\* String.prototype.trim
trim(s) == TrimRight(TrimLeft(s))

startsWith(s, c) == s # <<>> /\ s[1] = c
endsWith(s, c) == s # <<>> /\ s[Len(s)] = c

\* Array.prototype.join(sep) on an array of strings
RECURSIVE join(_, _)
join(items, sep) ==
  IF items = <<>> THEN <<>>
  ELSE IF Len(items) = 1 THEN items[1]
  ELSE items[1] \o <<sep>> \o join(Tail(items), sep)

\* String.prototype.split(sep): the pieces between the occurrences of sep
RECURSIVE splitFrom(_, _, _, _)
splitFrom(s, sep, cur, acc) ==
  IF s = <<>> THEN Append(acc, cur)
  ELSE IF Head(s) = sep THEN splitFrom(Tail(s), sep, <<>>, Append(acc, cur))
  ELSE splitFrom(Tail(s), sep, Append(cur, Head(s)), acc)

split(s, sep) == splitFrom(s, sep, <<>>, <<>>)

\* JSON.parse on a text whose values are arrays of strings: [ok, val].
\* ok = FALSE is the SyntaxError JSON.parse throws.
RECURSIVE JsonScan(_, _, _, _, _)
JsonScan(s, i, st, cur, acc) ==
  IF i > Len(s)
  THEN [ok |-> st = "end", val |-> IF st = "end" THEN acc ELSE <<>>]
  ELSE LET c == s[i]
           fail == [ok |-> FALSE, val |-> <<>>]
       IN CASE st = "start" ->
                 IF c = " " THEN JsonScan(s, i + 1, "start", cur, acc)
                 ELSE IF c = "[" THEN JsonScan(s, i + 1, "first", cur, acc)
                 ELSE fail
            [] st = "first" ->
                 IF c = " " THEN JsonScan(s, i + 1, "first", cur, acc)
                 ELSE IF c = "]" THEN JsonScan(s, i + 1, "end", cur, acc)
                 ELSE IF c = "\"" THEN JsonScan(s, i + 1, "str", <<>>, acc)
                 ELSE fail
            [] st = "str" ->
                 IF c = "\"" THEN JsonScan(s, i + 1, "after", <<>>, Append(acc, cur))
                 ELSE JsonScan(s, i + 1, "str", Append(cur, c), acc)
            [] st = "after" ->
                 IF c = " " THEN JsonScan(s, i + 1, "after", cur, acc)
                 ELSE IF c = "," THEN JsonScan(s, i + 1, "elem", cur, acc)
                 ELSE IF c = "]" THEN JsonScan(s, i + 1, "end", cur, acc)
                 ELSE fail
            [] st = "elem" ->
                 IF c = " " THEN JsonScan(s, i + 1, "elem", cur, acc)
                 ELSE IF c = "\"" THEN JsonScan(s, i + 1, "str", <<>>, acc)
                 ELSE fail
            [] OTHER ->
                 IF c = " " THEN JsonScan(s, i + 1, "end", cur, acc) ELSE fail

JsonParse(s) == JsonScan(s, 1, "start", <<>>, <<>>)

(***************************************************************************)
(* The words of the model and what the natural library does with them.     *)
(***************************************************************************)
\* server.js:448
STOPWORDS ==
  {"the", "and", "for", "a", "an", "of", "in", "on", "to", "is", "are", "that",
   "this", "with", "as", "by", "from", "it", "its", "be", "was", "were",
   "which", "or", "but"}

\* server.js:449
ENTITY_STOPWORDS ==
  {"jesus", "christ", "moses", "krishna", "buddha", "zeus", "apollo",
   "muhammad", "allah", "odin", "thor", "ra", "ishvara"}

\* String.prototype.toLowerCase on the capitalised words of the model
LowerTable ==
  ("The" :> "the") @@ ("Great" :> "great") @@ ("Flood" :> "flood") @@
  ("Noah" :> "noah") @@ ("Ark" :> "ark") @@ ("Zeus" :> "zeus") @@
  ("Deliverance" :> "deliverance") @@ ("Birth" :> "birth") @@
  ("Of" :> "of") @@ ("Sun" :> "sun")

lowerWord(w) == IF w \in DOMAIN LowerTable THEN LowerTable[w] ELSE w

toLowerCase(s) == [i \in 1..Len(s) |-> lowerWord(s[i])]

\* String.prototype.length of a lexeme: the words of the model that are one or
\* two characters long are listed, every other word of the model is longer
OneCharWords == {"a"}
TwoCharWords == {"an", "of", "in", "on", "to", "is", "as", "by", "it", "be", "or", "ra", "xy", "us"}

isShort(w) == w \in Punct \/ w \in OneCharWords \/ w \in TwoCharWords

\* natural.PorterStemmer.stem on the words of the model
StemTable ==
  ("floods" :> "flood") @@ ("waters" :> "water") @@ ("miraculous" :> "miracul") @@
  ("miracle" :> "miracl") @@ ("sacrifice" :> "sacrific") @@ ("divine" :> "divin") @@
  ("deliverance" :> "deliver") @@ ("nativity" :> "nativ") @@
  ("conception" :> "concept") @@ ("covered" :> "cover") @@ ("rises" :> "rise") @@
  ("uses" :> "us") @@ ("butted" :> "but") @@ ("agreed" :> "agre") @@ ("agre" :> "agr")

stem(w) == IF w \in DOMAIN StemTable THEN StemTable[w] ELSE w

(***************************************************************************)
(* Utility functions, server.js:451-489.                                   *)
(***************************************************************************)
isWord(c) == c \notin Punct

\* natural.WordTokenizer.tokenize: the maximal runs of word characters
tokenize(s) == SelectSeq(s, isWord)

\* t.replace(/^"|"$/g, '').trim() of server.js:460
stripQuotes(t) ==
  LET a == IF startsWith(t, "\"") THEN Tail(t) ELSE t
      b == IF endsWith(a, "\"") THEN SubSeq(a, 1, Len(a) - 1) ELSE a
  IN trim(b)

\* server.js:451-465.  tags is a column value; the result is a string.
normalizeTags(tags) ==
  IF tags.t = "null" \/ (tags.t = "string" /\ tags.s = <<>>) THEN <<>>
  ELSE IF tags.t = "array" THEN join(tags.items, " ")
  ELSE LET s == trim(tags.s)
           parsed == JsonParse(s)
       IN IF startsWith(s, "[") /\ endsWith(s, "]") /\ parsed.ok
          THEN join(parsed.val, " ")
          ELSE IF startsWith(s, "{") /\ endsWith(s, "}")
          THEN LET parts == split(SubSeq(s, 2, Len(s) - 1), ",")
               IN join([i \in 1..Len(parts) |-> stripQuotes(parts[i])], " ")
          ELSE s

keepToken(t) == ~isShort(t) /\ t \notin STOPWORDS /\ t \notin ENTITY_STOPWORDS

\* Variant of lines 470-473 that passes over the first token
preprocessToTokensFromSecond(text) ==
  IF text = <<>> THEN <<>>
  ELSE LET toks == tokenize(toLowerCase(text))
           kept == SelectSeq(IF toks = <<>> THEN <<>> ELSE Tail(toks), keepToken)
       IN [i \in 1..Len(kept) |-> stem(kept[i])]

\* server.js:467-474.  The words of the model are made of [a-z0-9] once in
\* lower case, so the replace of line 471 leaves them as they are.
preprocessToTokens(text) ==
  IF text = <<>> THEN <<>>
  ELSE LET kept == SelectSeq(tokenize(toLowerCase(text)), keepToken)
       IN [i \in 1..Len(kept) |-> stem(kept[i])]

\* server.js:475-477
preprocessToString(text) ==
  LET toks == preprocessToTokens(text)
  IN join([i \in 1..Len(toks) |-> <<toks[i]>>], " ")

\* server.js:478-481.  The length is counted in lexemes: the texts of the
\* model stay far below the cap of 2000 characters.
safeSlice(s, max) == IF Len(s) > max THEN SubSeq(s, 1, max) ELSE s

Max(a, b) == IF a >= b THEN a ELSE b
Min(a, b) == IF a <= b THEN a ELSE b

\* `${a} ${b}`
Sp(a, b) == a \o <<" ">> \o b

\* server.js:482-489
buildDocForRow(row, opts) ==
  LET title == row.title
      summary == safeSlice(row.summary, 2000)
      content == safeSlice(row.content, 2000)
      tags == normalizeTags(row.tags)
      titlePart == join([i \in 1..Max(1, opts.titleBoost) |-> preprocessToString(title)], " ")
  IN trim(Sp(Sp(Sp(titlePart, preprocessToString(summary)),
                preprocessToString(content)), preprocessToString(tags)))

(***************************************************************************)
(* The records the store can hold.                                         *)
(***************************************************************************)
W(words) == join([i \in 1..Len(words) |-> <<words[i]>>], " ")

Arr(names) == [t |-> "array", items |-> [i \in 1..Len(names) |-> <<names[i]>>]]
Str(s) == [t |-> "string", s |-> s]

MythA ==
  [id |-> 1, title |-> W(<<"The", "Great", "Flood">>),
   summary |-> W(<<"waters", "covered", "the", "world">>), content |-> <<>>,
   tags |-> Arr(<<"flood", "water">>), themes |-> Arr(<<"Flood", "Deliverance">>)]

MythB ==
  [id |-> 2, title |-> W(<<"Noah", "Ark">>),
   summary |-> W(<<"flood", "waters", "covered", "the", "world">>), content |-> <<>>,
   tags |-> Str(<<"[", "\"", "flood", "\"", ",", "\"", "ark", "\"", "]">>),
   themes |-> Arr(<<"flood", "deliverance">>)]

\* MythB with a tags text that starts with [ and is not JSON
MythBBadTags ==
  [MythB EXCEPT !.tags = Str(<<"[", "\"", "flood", "\"", ",", "ark">>)]

\* a record whose themes text starts with [ and is not JSON
MythC ==
  [id |-> 3, title |-> W(<<"Birth", "Of", "Sun">>),
   summary |-> W(<<"miraculous", "birth", "sun", "rises">>), content |-> <<>>,
   tags |-> Str(<<"{", "sun", ",", "\"", "birth", "\"", "}">>),
   themes |-> Str(<<"[", "sun">>)]

\* a record with one theme, which no other record has
MythD ==
  [id |-> 4, title |-> W(<<"Birth", "Of", "Sun">>),
   summary |-> W(<<"miraculous", "birth", "sun", "rises">>), content |-> <<>>,
   tags |-> Arr(<<"sun">>), themes |-> Arr(<<"Sun">>)]

\* a record without tags and without themes, whose text is close to MythA's
MythE ==
  [id |-> 5, title |-> W(<<"Great", "Ark">>),
   summary |-> W(<<"flood", "waters", "covered", "the", "world">>), content |-> <<>>,
   tags |-> Null, themes |-> Null]

\* a record whose text has stopwords only: its document is empty
MythF ==
  [id |-> 6, title |-> W(<<"The">>), summary |-> <<>>, content |-> <<>>,
   tags |-> Null, themes |-> Null]

\* a record without text that has the themes of MythA
MythG ==
  [id |-> 7, title |-> <<>>, summary |-> W(<<"of", "the">>), content |-> <<>>,
   tags |-> Null, themes |-> Arr(<<"Flood", "Deliverance">>)]

\* The contents the myths table goes through (rows in ORDER BY m.id)
Corpora == {<<MythA, MythB>>, <<MythA, MythBBadTags, MythC>>}

(***************************************************************************)
(* Helper functions for the suggester, server.js:520-546.                  *)
(***************************************************************************)
Range(seq) == {seq[i] : i \in 1..Len(seq)}

\* Variant of line 522 with i + n < tokens.length: the last pair is left out
ngramsFromTokensOneShort(tokens) ==
  [i \in 1..(IF Len(tokens) > 2 THEN Len(tokens) - 2 ELSE 0) |-> <<tokens[i], tokens[i + 1]>>]

\* server.js:520-526, n = 2: the pairs of adjacent tokens
ngramsFromTokens(tokens) == [i \in 1..Max(0, Len(tokens) - 1) |-> <<tokens[i], tokens[i + 1]>>]

\* server.js:527-529
toSet(arr) == Range(arr)

\* server.js:530-535
intersectionSize(aSet, bSet) == Cardinality({x \in aSet : x \in bSet})

\* Variant of lines 536-541 whose second loop runs over aSet again
unionSizeLeftTwice(aSet, bSet) == Cardinality(aSet \cup aSet)

\* server.js:536-541
unionSize(aSet, bSet) == Cardinality(aSet \cup bSet)

\* Variant of lines 542-546 that takes two empty sets for equal sets
jaccardEmptyIsOne(aSet, bSet) ==
  LET u == unionSize(aSet, bSet)
  IN IF u = 0 THEN [num |-> 1, den |-> 1]
     ELSE [num |-> intersectionSize(aSet, bSet), den |-> u]

\* server.js:542-546, as the fraction [num, den]; 0 is 0/1
jaccard(aSet, bSet) ==
  LET u == unionSize(aSet, bSet)
  IN IF u = 0 THEN [num |-> 0, den |-> 1]
     ELSE [num |-> intersectionSize(aSet, bSet), den |-> u]

(***************************************************************************)
(* natural.TfIdf and the cosine of server.js:778-784, in fixed point.      *)
(* Weights are in 1/1000, scores in 1/10000.                               *)
(***************************************************************************)
\* 1000 * ln(n), rounded, for the batch sizes of the model
LnMilli == <<0, 693, 1099, 1386, 1609, 1792, 1946, 2079>>

\* natural.TfIdf.idf: 1 + ln(N / (1 + df)), in 1/1000
idfMilli(N, df) == 1000 + LnMilli[N] - LnMilli[1 + df]

\* the terms natural.TfIdf counts in a document string
docTerms(doc) == tokenize(doc)

termCount(term, terms) == Cardinality({i \in 1..Len(terms) : terms[i] = term})

\* natural.TfIdf.listTerms(i) as the map term -> tf * idf (server.js:772-776)
termMap(docs, i) ==
  LET terms == docTerms(docs[i])
      df(t) == Cardinality({j \in 1..Len(docs) : t \in Range(docTerms(docs[j]))})
  IN [t \in Range(terms) |-> termCount(t, terms) * idfMilli(Len(docs), df(t))]

RECURSIVE SumOver(_, _)
SumOver(S, f) ==
  IF S = {} THEN 0
  ELSE LET x == CHOOSE y \in S : TRUE IN f[x] + SumOver(S \ {x}, f)

\* floor of the square root, by bisection on lo..hi
RECURSIVE isqrtIn(_, _, _)
isqrtIn(x, lo, hi) ==
  IF lo >= hi THEN lo
  ELSE LET mid == (lo + hi + 1) \div 2
       IN IF mid * mid <= x THEN isqrtIn(x, mid, hi) ELSE isqrtIn(x, lo, mid - 1)

isqrt(x) == isqrtIn(x, 0, 46340)

\* server.js:778-784, in 1/10000
cosine(a, b) ==
  LET common == DOMAIN a \cap DOMAIN b
      num == SumOver(common, [t \in common |-> a[t] * b[t]])
      aa == SumOver(DOMAIN a, [t \in DOMAIN a |-> a[t] * a[t]])
      bb == SumOver(DOMAIN b, [t \in DOMAIN b |-> b[t] * b[t]])
      sa == isqrt(aa)
      sb == isqrt(bb)
  IN IF aa = 0 \/ bb = 0 THEN 0
     ELSE ((num \div sa) * 10000 + ((num % sa) * 10000) \div sa) \div sb

(***************************************************************************)
(* POST /api/parallels/suggest, server.js:694-888: the part after the      *)
(* two store fetches.                                                      *)
(***************************************************************************)
TITLE_BOOST == 3
MIN_SCORE == 350            \* 0.035 in 1/10000
TOP_K == 12
THEME_AUTO_ACCEPT == 2
PENALTY_BELOW == 800        \* the 0.08 of server.js:834, in 1/10000

\* server.js:707-709
KEYWORD_GROUP ==
  LET words == <<"birth", "born", "nativity", "miracl", "miraculous", "conception",
                 "found", "founder", "origin", "resurrect", "resurrecti", "divin",
                 "prophet", "savior", "sacrifice">>
  IN [i \in 1..Len(words) |-> stem(words[i])]

nonEmpty(x) == x # <<>>

\* server.js:718-736: the theme names of a row, in lower case
extractThemes(row) ==
  LET t == row.themes
  IN IF t.t = "null" \/ (t.t = "string" /\ t.s = <<>>) THEN <<>>
     ELSE IF t.t = "array" THEN [i \in 1..Len(t.items) |-> toLowerCase(t.items[i])]
     ELSE LET s == trim(t.s)
              parsed == JsonParse(s)
              parts == split(s, ",")
          IN IF startsWith(s, "[") /\ parsed.ok
             THEN [i \in 1..Len(parsed.val) |-> toLowerCase(parsed.val[i])]
             ELSE SelectSeq([i \in 1..Len(parts) |-> toLowerCase(trim(parts[i]))], nonEmpty)

\* Variant of lines 745-748 that leaves out the source only
rawCandidatesSourceOnly(mythList, numericId, linkedBs) ==
  LET eligible(m) == m.id # numericId
  IN SelectSeq(mythList, eligible)

\* server.js:745-748
rawCandidates(mythList, numericId, linkedBs) ==
  LET eligible(m) == m.id # numericId /\ m.id \notin linkedBs
  IN SelectSeq(mythList, eligible)

\* Variant of lines 751-761 without the fallback of line 758
prioritizedCandidatesNoFallback(raw, sourceThemes) ==
  LET shares(c) == \E t \in Range(extractThemes(c)) : t \in sourceThemes
  IN IF sourceThemes # {} THEN SelectSeq(raw, shares) ELSE raw

\* server.js:751-761
prioritizedCandidates(raw, sourceThemes) ==
  LET shares(c) == \E t \in Range(extractThemes(c)) : t \in sourceThemes
      narrowed == SelectSeq(raw, shares)
  IN IF sourceThemes # {} /\ narrowed # <<>> THEN narrowed ELSE raw

allText(row) == Sp(Sp(row.title, row.summary), row.content)

\* Variant of line 830 in which a second shared theme takes the boost away
finalScoreOneTheme(baseScore, sharedThemeCount, bigramJacc, unigramJacc, sharedKeywordCount, sharedTitleCount) ==
  LET themeBoost == IF sharedThemeCount = 1 THEN 450 ELSE 0
      bigramBoost == (bigramJacc.num * 1100) \div bigramJacc.den
      unigramBoost == (unigramJacc.num * 350) \div unigramJacc.den
      keywordBoost == (IF sharedKeywordCount <= 3 THEN sharedKeywordCount ELSE 3) * 500
      boosted == (baseScore * (1000 + themeBoost + bigramBoost + unigramBoost + keywordBoost)) \div 1000
  IN IF sharedTitleCount > 0 /\ baseScore < 800 THEN (boosted * 6) \div 10 ELSE boosted

\* Variant of lines 830 and 833 without the Math.min(.., 3)
finalScoreUncapped(baseScore, sharedThemeCount, bigramJacc, unigramJacc, sharedKeywordCount, sharedTitleCount) ==
  LET themeBoost == sharedThemeCount * 450
      bigramBoost == (bigramJacc.num * 1100) \div bigramJacc.den
      unigramBoost == (unigramJacc.num * 350) \div unigramJacc.den
      keywordBoost == sharedKeywordCount * 500
      boosted == (baseScore * (1000 + themeBoost + bigramBoost + unigramBoost + keywordBoost)) \div 1000
  IN IF sharedTitleCount > 0 /\ baseScore < 800 THEN (boosted * 6) \div 10 ELSE boosted

\* Variant of line 834 with baseScore <= 0.08 for baseScore < 0.08
finalScorePenaltyAt(baseScore, sharedThemeCount, bigramJacc, unigramJacc, sharedKeywordCount, sharedTitleCount) ==
  LET themeBoost == (IF sharedThemeCount <= 3 THEN sharedThemeCount ELSE 3) * 450
      bigramBoost == (bigramJacc.num * 1100) \div bigramJacc.den
      unigramBoost == (unigramJacc.num * 350) \div unigramJacc.den
      keywordBoost == (IF sharedKeywordCount <= 3 THEN sharedKeywordCount ELSE 3) * 500
      boosted == (baseScore * (1000 + themeBoost + bigramBoost + unigramBoost + keywordBoost)) \div 1000
  IN IF sharedTitleCount > 0 /\ baseScore <= 800 THEN (boosted * 6) \div 10 ELSE boosted

\* server.js:830-837: finalScore in 1/10000 from the measures of one candidate
finalScore(baseScore, sharedThemeCount, bigramJacc, unigramJacc, sharedKeywordCount, sharedTitleCount) ==
  LET themeBoost == Min(sharedThemeCount, 3) * 450
      bigramBoost == (bigramJacc.num * 1100) \div bigramJacc.den
      unigramBoost == (unigramJacc.num * 350) \div unigramJacc.den
      keywordBoost == Min(sharedKeywordCount, 3) * 500
      boosted == (baseScore * (1000 + themeBoost + bigramBoost + unigramBoost + keywordBoost)) \div 1000
  IN IF sharedTitleCount > 0 /\ baseScore < PENALTY_BELOW THEN (boosted * 6) \div 10 ELSE boosted

\* Variant of lines 842-843 in which shared themes do not replace the threshold
qualifiesByScoreOnly(sharedThemeCount, score) == score >= 350

\* server.js:842-843
qualifies(sharedThemeCount, score) ==
  sharedThemeCount >= THEME_AUTO_ACCEPT \/ score >= MIN_SCORE

\* server.js:795-858: one pass of the scoring loop, for candidate i
scoreCandidate(sourceRow, cands, i) ==
  LET cand == cands[i]
      docs == <<buildDocForRow(sourceRow, [titleBoost |-> TITLE_BOOST])>> \o
              [j \in 1..Len(cands) |-> buildDocForRow(cands[j], [titleBoost |-> TITLE_BOOST])]
      baseScore == cosine(termMap(docs, 1), termMap(docs, i + 1))
      srcTokens == preprocessToTokens(allText(sourceRow))
      candTokens == preprocessToTokens(allText(cand))
      bigramJacc == jaccard(toSet(ngramsFromTokens(srcTokens)), toSet(ngramsFromTokens(candTokens)))
      unigramJacc == jaccard(toSet(srcTokens), toSet(candTokens))
      sharedTitleCount == intersectionSize(toSet(preprocessToTokens(sourceRow.title)),
                                           toSet(preprocessToTokens(cand.title)))
      sharedThemeCount == intersectionSize(toSet(extractThemes(sourceRow)), toSet(extractThemes(cand)))
      sharedKeywordCount ==
        Cardinality({k \in 1..Len(KEYWORD_GROUP) :
                       KEYWORD_GROUP[k] \in toSet(srcTokens) /\ KEYWORD_GROUP[k] \in toSet(candTokens)})
      score == finalScore(baseScore, sharedThemeCount, bigramJacc, unigramJacc,
                          sharedKeywordCount, sharedTitleCount)
  IN [score |-> score,
      raw |-> [baseScore |-> baseScore, sharedThemeCount |-> sharedThemeCount,
               bigramJacc |-> bigramJacc, unigramJacc |-> unigramJacc,
               sharedKeywordCount |-> sharedKeywordCount,
               sharedTitleCount |-> sharedTitleCount, id |-> cand.id],
      myth |-> cand]

\* Variant of the sort of line 861 that puts an entry before its equals
RECURSIVE insertBeforeEquals(_, _)
insertBeforeEquals(sorted, x) ==
  IF sorted = <<>> THEN <<x>>
  ELSE IF Head(sorted).score > x.score THEN <<Head(sorted)>> \o insertBeforeEquals(Tail(sorted), x)
  ELSE <<x>> \o sorted

\* Array.prototype.sort((a, b) => b.score - a.score), which is stable
RECURSIVE insertByScore(_, _)
insertByScore(sorted, x) ==
  IF sorted = <<>> THEN <<x>>
  ELSE IF Head(sorted).score >= x.score THEN <<Head(sorted)>> \o insertByScore(Tail(sorted), x)
  ELSE <<x>> \o sorted

RECURSIVE sortByScore(_)
sortByScore(arr) ==
  IF arr = <<>> THEN <<>>
  ELSE insertByScore(sortByScore(SubSeq(arr, 1, Len(arr) - 1)), arr[Len(arr)])

\* server.js:864-866: the tags and themes of one returned record, [ok, val];
\* ok = FALSE is JSON.parse throwing
outTags(m) ==
  IF m.tags.t = "array" THEN [ok |-> TRUE, val |-> m.tags.items]
  ELSE IF m.tags.t = "string" /\ startsWith(trim(m.tags.s), "[") THEN JsonParse(m.tags.s)
  ELSE IF m.tags.t = "string"
  THEN [ok |-> TRUE, val |-> SelectSeq(split(normalizeTags(m.tags), " "), nonEmpty)]
  ELSE [ok |-> TRUE, val |-> <<>>]

outThemes(m) ==
  IF m.themes.t = "array" THEN [ok |-> TRUE, val |-> m.themes.items]
  ELSE IF m.themes.t = "string" /\ startsWith(trim(m.themes.s), "[") THEN JsonParse(m.themes.s)
  ELSE IF m.themes.t = "string"
  THEN LET parts == split(normalizeTags(m.themes), ",")
       IN [ok |-> TRUE, val |-> SelectSeq([i \in 1..Len(parts) |-> trim(parts[i])], nonEmpty)]
  ELSE [ok |-> TRUE, val |-> <<>>]

\* server.js:795-859: the scoring loop, one entry per candidate
scoreAll(sourceRow, cands) == [i \in 1..Len(cands) |-> scoreCandidate(sourceRow, cands, i)]

\* server.js:843: the entries pushed to scored
keepQualified(all) ==
  LET kept(sc) == qualifies(sc.raw.sharedThemeCount, sc.score)
  IN SelectSeq(all, kept)

\* Variant of lines 861-862 that slices before it sorts
topKSliceFirst(scored) == sortByScore(SubSeq(scored, 1, IF Len(scored) < 12 THEN Len(scored) ELSE 12))

\* server.js:861-862: scored.sort(...).slice(0, TOP_K)
topK(scored) == SubSeq(sortByScore(scored), 1, Min(TOP_K, Len(scored)))

\* server.js:862-887: the payload of the top entries, or the 500 of the catch
\* when a JSON.parse of line 865 or 866 throws
respondWith(top) ==
  IF \E i \in 1..Len(top) : ~outTags(top[i].myth).ok \/ ~outThemes(top[i].myth).ok
  THEN [status |-> 500, body |-> <<>>]
  ELSE [status |-> 200,
        body |-> [i \in 1..Len(top) |->
                    [score |-> top[i].score, rationale |-> top[i].raw,
                     myth |-> [id |-> top[i].myth.id, tags |-> outTags(top[i].myth).val,
                               themes |-> outThemes(top[i].myth).val]]]]

\* server.js:738-761: the candidates that are scored
candidatePool(cache, numericId, linkedBs) ==
  prioritizedCandidates(rawCandidates(cache.mythList, numericId, linkedBs),
                        toSet(extractThemes(cache.idToRow[numericId].row)))

\* Variant of line 763 that takes an empty pool for an error
rankPoolEmptyFails(sourceRow, cands) ==
  IF cands = <<>> THEN [status |-> 500, body |-> <<>>]
  ELSE respondWith(topK(keepQualified(scoreAll(sourceRow, cands))))

\* server.js:763-883 for a pool of candidates
rankPool(sourceRow, cands) ==
  IF cands = <<>> THEN [status |-> 200, body |-> <<>>]
  ELSE respondWith(topK(keepQualified(scoreAll(sourceRow, cands))))

\* one entry of the scoring loop with baseScore taken from given documents
rescored(e, docs, i) ==
  [e EXCEPT !.raw.baseScore = cosine(termMap(docs, 1), termMap(docs, i + 1)),
            !.score = finalScore(cosine(termMap(docs, 1), termMap(docs, i + 1)),
                                 e.raw.sharedThemeCount, e.raw.bigramJacc, e.raw.unigramJacc,
                                 e.raw.sharedKeywordCount, e.raw.sharedTitleCount)]

\* Variant of lines 766-767 that takes the documents stored in the snapshot,
\* built with the titleBoost of the call that built it, for the TF-IDF
suggestRespondStoredDocs(cache, numericId, linkedBs) ==
  IF candidatePool(cache, numericId, linkedBs) = <<>> THEN [status |-> 200, body |-> <<>>]
  ELSE respondWith(topK(keepQualified(
         [i \in 1..Len(candidatePool(cache, numericId, linkedBs)) |->
            rescored(scoreCandidate(cache.idToRow[numericId].row,
                                    candidatePool(cache, numericId, linkedBs), i),
                     <<cache.idToRow[numericId].doc>> \o
                       [j \in 1..Len(candidatePool(cache, numericId, linkedBs)) |->
                          cache.idToRow[candidatePool(cache, numericId, linkedBs)[j].id].doc],
                     i)])))

\* server.js:738-887 once linkedRes has arrived: the response [status, body].
\* linkedBs is the set of myth_b of the rows of linkedRes.
suggestRespond(cache, numericId, linkedBs) ==
  rankPool(cache.idToRow[numericId].row, candidatePool(cache, numericId, linkedBs))

(***************************************************************************)
(* Request-body values and Number().                                       *)
(***************************************************************************)
Undefined == [t |-> "undefined"]
NaN == [t |-> "NaN"]
Num(i, h) == [t |-> "number", int |-> i, half |-> h]
Text(w) == [t |-> "string", s |-> <<w>>]

\* the numeric strings of the model
NumericStrings == ("2" :> 2) @@ ("1" :> 1)

\* Number(v)
Number(v) ==
  IF v.t = "number" THEN v
  ELSE IF v.t = "string" /\ Len(v.s) = 1 /\ v.s[1] \in DOMAIN NumericStrings
  THEN Num(NumericStrings[v.s[1]], 0)
  ELSE NaN

\* Number.isFinite(n), Infinity not being a value of the model
isFinite(n) == n.t = "number"

\* the mythId values a suggest request is sent with
MythIdInputs ==
  {Undefined, Text("abc"), Num(0, 0), Num(-1, 0), Num(1, 1), Num(1, 0), Num(2, 0), Num(3, 0)}

\* the (mythA, mythB) bodies POST /api/parallels is sent with
ParallelInputs ==
  {<<Num(1, 0), Num(2, 0)>>, <<Num(2, 0), Num(1, 0)>>, <<Num(1, 0), Num(1, 0)>>,
   <<Undefined, Num(2, 0)>>}

(***************************************************************************)
(* Suggest cache, server.js:491-517.                                       *)
(***************************************************************************)
ttlMs == 300000

\* Variant of line 495 that never returns the stored value
cacheNeverFresh(t) == FALSE

\* Variant of line 495 with <= for <: a value of age ttlMs is still returned
cacheFreshInclusive(t) ==
  SUGGEST_CACHE.value # Null /\ t - SUGGEST_CACHE.value.ts <= SUGGEST_CACHE.ttlMs

\* server.js:495: the test that makes buildOrGetCache return the stored value
cacheFresh(t) ==
  SUGGEST_CACHE.value # Null /\ t - SUGGEST_CACHE.value.ts < SUGGEST_CACHE.ttlMs

\* Variant of lines 507-514 that takes mythList from the table as it is when
\* the value is built, and docs and idToRow from the rows of the query
buildValueTorn(t, rows, opts) ==
  [ts |-> t,
   docs |-> [i \in 1..Len(rows) |-> buildDocForRow(rows[i], opts)],
   idToRow |-> [id \in {rows[i].id : i \in 1..Len(rows)} |->
                  LET i == CHOOSE k \in 1..Len(rows) : rows[k].id = id
                  IN [row |-> rows[i], doc |-> buildDocForRow(rows[i], opts)]],
   mythList |-> myths]

\* server.js:507-514: the value built from the rows of the corpus query
buildValue(t, rows, opts) ==
  [ts |-> t,
   docs |-> [i \in 1..Len(rows) |-> buildDocForRow(rows[i], opts)],
   idToRow |-> [id \in {rows[i].id : i \in 1..Len(rows)} |->
                  LET i == CHOOSE k \in 1..Len(rows) : rows[k].id = id
                  IN [row |-> rows[i], doc |-> buildDocForRow(rows[i], opts)]],
   mythList |-> rows]

\* Map.prototype.has of idToRow for a JavaScript number
hasId(idToRow, n) == n.t = "number" /\ n.half = 0 /\ n.int \in DOMAIN idToRow

(***************************************************************************)
(* Requests.                                                               *)
(***************************************************************************)
NoRes == [t |-> "none"]
Failed == [t |-> "error"]
Rows(x) == [t |-> "rows", rows |-> x]

NoBody == [t |-> "none"]
ErrorBody(msg) == [t |-> "error", error |-> msg]
JsonBody(x) == [t |-> "json", json |-> x]

Idle ==
  [kind |-> "idle", pc |-> "idle", arg |-> Null, now |-> 0, opts |-> [titleBoost |-> 0],
   res |-> NoRes, cache |-> Null, status |-> 0, body |-> NoBody,
   abortedAt |-> "no", nCorpus |-> 0, nLinks |-> 0, failed |-> "none"]

\* res.status(status).json(body): the request is over, its locals are dropped
respond(rq, status, body) ==
  [rq EXCEPT !.pc = "done", !.status = status, !.body = body,
             !.now = 0, !.res = NoRes, !.cache = Null, !.opts = [titleBoost |-> 0]]

\* Variant of line 714 that answers an id the snapshot lacks with the empty list
afterCacheEmptyList(rq, value) ==
  IF ~hasId(value.idToRow, Number(rq.arg))
  THEN respond(rq, 200, JsonBody(<<>>))
  ELSE [rq EXCEPT !.pc = "linksQuery", !.cache = value, !.res = NoRes, !.nLinks = @ + 1]

\* server.js:713-741: suggest once buildOrGetCache has returned value
afterCache(rq, value) ==
  IF ~hasId(value.idToRow, Number(rq.arg))
  THEN respond(rq, 404, ErrorBody("source myth not found"))
  ELSE [rq EXCEPT !.pc = "linksQuery", !.cache = value, !.res = NoRes, !.nLinks = @ + 1]

\* the slots whose buildOrGetCache call waits for the rows of its corpus
\* query (line 506), in the request table rq
fetching(rq) == {r \in Req : rq[r].pc \in {"corpusQuery", "corpusReply"}}

\* no INSERT into parallels has succeeded.  calls: the slots whose corpus
\* query was issued before the latest INSERT and is still awaited; value: the
\* stored snapshot comes from a corpus query issued before the latest INSERT;
\* pending: the slot of the latest INSERT until its handler runs line 690
NoWrite == [calls |-> {}, value |-> FALSE, pending |-> 0]

\* no scoring loop has been run on given measures
NoCalc == [t |-> "none"]

Init ==
  /\ now = 0
  /\ myths \in Corpora
  /\ parallels = {}
  /\ SUGGEST_CACHE = [value |-> Null, ttlMs |-> ttlMs]
  /\ req = [r \in Req |-> Idle]
  /\ dropped = FALSE
  /\ calc = NoCalc
  /\ stale = NoWrite

\* Variant of lines 694-712 with the test of line 698 moved behind the call of
\* buildOrGetCache of line 712
SuggestStartLateCheck(r, mythId) ==
  /\ req[r].pc = "idle"
  /\ LET rq == [req[r] EXCEPT !.kind = "suggest", !.arg = mythId]
     IN req' = [req EXCEPT ![r] =
                  IF ~cacheFresh(now)
                  THEN [rq EXCEPT !.pc = "corpusQuery", !.now = now,
                                  !.opts = [titleBoost |-> TITLE_BOOST], !.nCorpus = @ + 1]
                  ELSE IF ~isFinite(Number(mythId))
                  THEN respond(rq, 400, ErrorBody("invalid mythId"))
                  ELSE afterCache(rq, SUGGEST_CACHE.value)]
  /\ dropped' = FALSE
  /\ UNCHANGED <<now, myths, parallels, SUGGEST_CACHE, calc, stale>>

\* POST /api/parallels/suggest, server.js:694-712, up to the first await
SuggestStart(r, mythId) ==
  /\ req[r].pc = "idle"
  /\ LET rq == [req[r] EXCEPT !.kind = "suggest", !.arg = mythId]
         numericId == Number(mythId)
     IN req' = [req EXCEPT ![r] =
                  IF ~isFinite(numericId) THEN respond(rq, 400, ErrorBody("invalid mythId"))
                  ELSE IF cacheFresh(now) THEN afterCache(rq, SUGGEST_CACHE.value)
                  ELSE [rq EXCEPT !.pc = "corpusQuery", !.now = now,
                                  !.opts = [titleBoost |-> TITLE_BOOST], !.nCorpus = @ + 1]]
  /\ dropped' = (dropped /\ ~isFinite(Number(mythId)))
  /\ UNCHANGED <<now, myths, parallels, SUGGEST_CACHE, calc, stale>>

\* POST /admin/rebuild-suggest-cache, server.js:551-552, up to the await
RebuildStart(r) ==
  /\ req[r].pc = "idle"
  /\ SUGGEST_CACHE' = [SUGGEST_CACHE EXCEPT !.value = Null]
  /\ req' = [req EXCEPT ![r] = [@ EXCEPT !.kind = "rebuild", !.pc = "corpusQuery", !.now = now,
                                         !.opts = [titleBoost |-> 2], !.nCorpus = @ + 1]]
  /\ dropped' = FALSE
  /\ stale' = [stale EXCEPT !.value = FALSE]
  /\ UNCHANGED <<now, myths, parallels, calc>>

\* The store runs the corpus query of server.js:497-506, or fails
StoreCorpus(r) ==
  /\ req[r].pc = "corpusQuery"
  /\ \E res \in {Rows(myths), Failed} :
       req' = [req EXCEPT ![r] = [@ EXCEPT !.pc = "corpusReply", !.res = res]]
  /\ UNCHANGED <<now, myths, parallels, SUGGEST_CACHE, dropped, calc, stale>>

\* Variant of lines 506-516 in which the rebuild belongs to its request: the
\* rows that arrive for a request its client has aborted are thrown away
CorpusResolveOwned(r) ==
  /\ req[r].pc = "corpusReply"
  /\ IF req[r].res = Failed \/ req[r].abortedAt # "no"
     THEN /\ req' = [req EXCEPT ![r] =
                       respond([@ EXCEPT !.failed = "corpus"], 500, ErrorBody("server error"))]
          /\ UNCHANGED SUGGEST_CACHE
     ELSE /\ SUGGEST_CACHE' =
               [SUGGEST_CACHE EXCEPT !.value = buildValue(req[r].now, req[r].res.rows, req[r].opts)]
          /\ req' = [req EXCEPT ![r] =
                       IF req[r].kind = "suggest" THEN afterCache(req[r], SUGGEST_CACHE'.value)
                       ELSE respond(req[r], 200, JsonBody([rebuilt |-> TRUE,
                                                           docs |-> Len(req[r].res.rows)]))]
  /\ stale' = [stale EXCEPT !.calls = @ \ {r},
                            !.value = IF req[r].res = Failed \/ req[r].abortedAt # "no"
                                      THEN @ ELSE r \in stale.calls]
  /\ UNCHANGED <<now, myths, parallels, dropped, calc>>

\* Variant of lines 506-516 that empties the cache when the corpus query fails
CorpusResolveFailClears(r) ==
  /\ req[r].pc = "corpusReply"
  /\ IF req[r].res = Failed
     THEN /\ req' = [req EXCEPT ![r] =
                       respond([@ EXCEPT !.failed = "corpus"], 500,
                               ErrorBody(IF req[r].kind = "suggest" THEN "server error"
                                         ELSE "rebuild failed"))]
          /\ SUGGEST_CACHE' = [SUGGEST_CACHE EXCEPT !.value = Null]
     ELSE /\ SUGGEST_CACHE' =
               [SUGGEST_CACHE EXCEPT !.value = buildValue(req[r].now, req[r].res.rows, req[r].opts)]
          /\ req' = [req EXCEPT ![r] =
                       IF req[r].kind = "suggest" THEN afterCache(req[r], SUGGEST_CACHE'.value)
                       ELSE respond(req[r], 200, JsonBody([rebuilt |-> TRUE,
                                                           docs |-> Len(req[r].res.rows)]))]
  /\ stale' = [stale EXCEPT !.calls = @ \ {r},
                            !.value = IF req[r].res = Failed THEN @ ELSE r \in stale.calls]
  /\ UNCHANGED <<now, myths, parallels, dropped, calc>>

\* server.js:506-516 and the caller's code after its await of buildOrGetCache
CorpusResolve(r) ==
  /\ req[r].pc = "corpusReply"
  /\ IF req[r].res = Failed
     THEN /\ req' = [req EXCEPT ![r] =
                       respond([@ EXCEPT !.failed = "corpus"], 500,
                               ErrorBody(IF req[r].kind = "suggest" THEN "server error"
                                         ELSE "rebuild failed"))]
          /\ UNCHANGED SUGGEST_CACHE
     ELSE /\ SUGGEST_CACHE' =
               [SUGGEST_CACHE EXCEPT !.value = buildValue(req[r].now, req[r].res.rows, req[r].opts)]
          /\ req' = [req EXCEPT ![r] =
                       IF req[r].kind = "suggest" THEN afterCache(req[r], SUGGEST_CACHE'.value)
                       ELSE respond(req[r], 200, JsonBody([rebuilt |-> TRUE,
                                                           docs |-> Len(req[r].res.rows)]))]
  /\ stale' = [stale EXCEPT !.calls = @ \ {r},
                            !.value = IF req[r].res = Failed THEN @ ELSE r \in stale.calls]
  /\ UNCHANGED <<now, myths, parallels, dropped, calc>>

\* server.js:741-887: the response for the rows of linkedRes
linksAnswer(rq, linkedBs) ==
  LET answer == suggestRespond(rq.cache, Number(rq.arg).int, linkedBs)
  IN IF answer.status = 200 THEN respond(rq, 200, JsonBody(answer.body))
     ELSE respond(rq, 500, ErrorBody("server error"))

\* Variant of the query of line 741 with WHERE myth_a = $1 OR myth_b = $1,
\* taking the other end of each row
linkedFromEitherEnd(numericId) ==
  {p[2] : p \in {q \in parallels : q[1] = numericId.int}} \cup
  {p[1] : p \in {q \in parallels : q[2] = numericId.int}}

\* the myth_b of the rows the query of server.js:741 selects
linkedFrom(numericId) == {p[2] : p \in {q \in parallels : q[1] = numericId.int}}

\* Variant of lines 741-887 that takes a failed query of line 741 for one
\* without rows and answers with the empty list
LinksResolveSoft(r) ==
  /\ req[r].pc = "linksQuery"
  /\ \E res \in {Rows(linkedFrom(Number(req[r].arg))), Failed} :
       req' = [req EXCEPT ![r] =
                 IF res = Failed
                 THEN respond([@ EXCEPT !.failed = "links"], 200, JsonBody(<<>>))
                 ELSE linksAnswer(req[r], res.rows)]
  /\ UNCHANGED <<now, myths, parallels, SUGGEST_CACHE, dropped, calc, stale>>

\* server.js:741-887: the store answers the query of line 741 with the rows
\* it holds when it replies, or fails, and the handler runs to its response
LinksResolve(r) ==
  /\ req[r].pc = "linksQuery"
  /\ \E res \in {Rows(linkedFrom(Number(req[r].arg))), Failed} :
       req' = [req EXCEPT ![r] =
                 IF res = Failed
                 THEN respond([@ EXCEPT !.failed = "links"], 500, ErrorBody("server error"))
                 ELSE linksAnswer(req[r], res.rows)]
  /\ UNCHANGED <<now, myths, parallels, SUGGEST_CACHE, dropped, calc, stale>>

\* POST /api/parallels, server.js:680-688, up to the await
AddParallelStart(r, body) ==
  /\ req[r].pc = "idle"
  /\ LET rq == [req[r] EXCEPT !.kind = "addParallel", !.arg = body]
         mythA == Number(body[1])
         mythB == Number(body[2])
     IN req' = [req EXCEPT ![r] =
                  IF ~isFinite(mythA) \/ ~isFinite(mythB) THEN respond(rq, 400, ErrorBody("invalid ids"))
                  ELSE IF mythA = mythB THEN respond(rq, 400, ErrorBody("cannot link myth to itself"))
                  ELSE [rq EXCEPT !.pc = "insertQuery"]]
  /\ UNCHANGED <<now, myths, parallels, SUGGEST_CACHE, dropped, calc, stale>>

\* The store runs the INSERT of server.js:686-688, or fails
StoreInsert(r) ==
  /\ req[r].pc = "insertQuery"
  /\ LET a == Number(req[r].arg[1]).int
         b == Number(req[r].arg[2]).int
     IN \/ /\ parallels' = parallels \cup {<<a, b>>}
           /\ req' = [req EXCEPT ![r] = [@ EXCEPT !.pc = "insertReply", !.res = Rows(<<a, b>>)]]
           /\ stale' = [calls |-> fetching(req), value |-> SUGGEST_CACHE.value # Null,
                        pending |-> r]
        \/ /\ req' = [req EXCEPT ![r] = [@ EXCEPT !.pc = "insertReply", !.res = Failed]]
           /\ UNCHANGED <<parallels, stale>>
  /\ UNCHANGED <<now, myths, SUGGEST_CACHE, dropped, calc>>

\* server.js:689-692
AddParallelResolve(r) ==
  /\ req[r].pc = "insertReply"
  /\ IF req[r].res = Failed
     THEN /\ req' = [req EXCEPT ![r] = respond([@ EXCEPT !.failed = "insert"], 500, ErrorBody("server error"))]
          /\ UNCHANGED <<SUGGEST_CACHE, dropped, stale>>
     ELSE /\ SUGGEST_CACHE' = [SUGGEST_CACHE EXCEPT !.value = Null]
          /\ dropped' = TRUE
          /\ stale' = [stale EXCEPT !.value = FALSE, !.pending = IF @ = r THEN 0 ELSE @]
          /\ req' = [req EXCEPT ![r] = respond(@, 201, JsonBody(req[r].res.rows))]
  /\ UNCHANGED <<now, myths, parallels, calc>>

\* MythPage.jsx:172-180: the client aborts its suggest request (the 10 s
\* timer, or a newer fetchParallels); the server's handler goes on
ClientAbort(r) ==
  /\ req[r].kind = "suggest"
  /\ req[r].pc \notin {"idle", "done"}
  /\ req[r].abortedAt = "no"
  /\ req' = [req EXCEPT ![r] = [@ EXCEPT !.abortedAt = req[r].pc]]
  /\ UNCHANGED <<now, myths, parallels, SUGGEST_CACHE, dropped, calc, stale>>

\* The response has been sent: the slot takes the next request
Recycle(r) ==
  /\ req[r].pc = "done"
  /\ req' = [req EXCEPT ![r] = Idle]
  /\ UNCHANGED <<now, myths, parallels, SUGGEST_CACHE, dropped, calc, stale>>

\* Time passes
Tick ==
  /\ now < MaxTicks * TickMs
  /\ now' = now + TickMs
  /\ UNCHANGED <<myths, parallels, SUGGEST_CACHE, req, dropped, calc, stale>>

\* Another client of the store changes the myths table
StoreWrite ==
  /\ \E c \in Corpora \ {myths} : myths' = c
  /\ UNCHANGED <<now, parallels, SUGGEST_CACHE, req, dropped, calc, stale>>

\* The steps of the server and of the store for the request of slot r
Serve(r) ==
  \/ StoreCorpus(r)
  \/ CorpusResolve(r)
  \/ LinksResolve(r)
  \/ StoreInsert(r)
  \/ AddParallelResolve(r)
  \/ Recycle(r)

(***************************************************************************)
(* Spec: two request slots, requests of every kind overlapping in every    *)
(* order, with the mythId and the link of ConcurrentIds, ConcurrentLinks.  *)
(***************************************************************************)
ConcurrentIds == {Num(1, 0)}
ConcurrentLinks == {<<Num(1, 0), Num(2, 0)>>}

Next ==
  \/ \E r \in Req : \E mythId \in ConcurrentIds : SuggestStart(r, mythId)
  \/ \E r \in Req : RebuildStart(r)
  \/ \E r \in Req : \E body \in ConcurrentLinks : AddParallelStart(r, body)
  \/ \E r \in Req : Serve(r)
  \/ Tick
  \/ StoreWrite

Spec == Init /\ [][Next]_vars

(***************************************************************************)
(* SpecInputs: one request at a time, with every request body of           *)
(* MythIdInputs and ParallelInputs.                                        *)
(***************************************************************************)
NextInputs ==
  \/ \E mythId \in MythIdInputs : SuggestStart(1, mythId)
  \/ RebuildStart(1)
  \/ \E body \in ParallelInputs : AddParallelStart(1, body)
  \/ Serve(1)
  \/ Tick
  \/ StoreWrite

SpecInputs == Init /\ [][NextInputs]_vars

(***************************************************************************)
(* SpecCancel: suggest requests whose client may abort them at any point   *)
(* (MythPage.jsx:172-180).  The store answers every query it is sent, with *)
(* rows or with an error, and Node runs the continuation of a settled      *)
(* await: weak fairness on StoreCorpus and CorpusResolve.                  *)
(***************************************************************************)
NextCancel ==
  \/ \E r \in Req : \E mythId \in ConcurrentIds : SuggestStart(r, mythId)
  \/ \E r \in Req : ClientAbort(r)
  \/ \E r \in Req : StoreCorpus(r)
  \/ \E r \in Req : CorpusResolve(r)
  \/ \E r \in Req : LinksResolve(r)
  \/ \E r \in Req : Recycle(r)
  \/ Tick

\* WF_vars(CorpusResolve(r)), with ENABLED <<CorpusResolve(r)>>_vars written
\* as the guard of the action, which always changes req[r].pc
fairCorpusResolve(r) ==
  []<>(req[r].pc # "corpusReply") \/ []<><<CorpusResolve(r)>>_vars

SpecCancel ==
  /\ Init
  /\ [][NextCancel]_vars
  /\ \A r \in Req : WF_vars(StoreCorpus(r)) /\ fairCorpusResolve(r)

(***************************************************************************)
(* SpecPool: suggest and rebuild requests on a myths table and a parallels *)
(* table that are given at the start and do not change.                    *)
(***************************************************************************)
PoolCorpora == {<<MythA>>, <<MythA, MythB, MythD, MythE>>}
PoolLinks == {{}, {<<1, 2>>}, {<<1, 2>>, <<1, 4>>, <<1, 5>>}, {<<5, 2>>}, {<<2, 1>>}}
PoolIds == {Num(1, 0), Num(2, 0), Num(4, 0), Num(5, 0)}

InitPool ==
  /\ now = 0
  /\ myths \in PoolCorpora
  /\ parallels \in PoolLinks
  /\ SUGGEST_CACHE = [value |-> Null, ttlMs |-> ttlMs]
  /\ req = [r \in Req |-> Idle]
  /\ dropped = FALSE
  /\ calc = NoCalc
  /\ stale = NoWrite

NextPool ==
  \/ \E r \in Req : \E mythId \in PoolIds : SuggestStart(r, mythId)
  \/ \E r \in Req : RebuildStart(r)
  \/ \E r \in Req : StoreCorpus(r)
  \/ \E r \in Req : CorpusResolve(r)
  \/ \E r \in Req : LinksResolve(r)
  \/ \E r \in Req : Recycle(r)

SpecPool == InitPool /\ [][NextPool]_vars

(***************************************************************************)
(* SpecScore: lines 828-858 of the scoring loop for one candidate, on      *)
(* measures given directly instead of computed from texts.                 *)
(***************************************************************************)
MaxThemes == 4       \* sharedThemeCount is 0..MaxThemes
MaxKeywords == 4     \* sharedKeywordCount is 0..MaxKeywords

\* the measures of lines 798-826 a candidate is scored from
MeasureInputs ==
  [baseScore : {0, 200, 799, 800, 5000},
   sharedThemeCount : 0..MaxThemes,
   bigramJacc : {[num |-> 0, den |-> 1], [num |-> 1, den |-> 2]},
   unigramJacc : {[num |-> 0, den |-> 1], [num |-> 1, den |-> 3]},
   sharedKeywordCount : {0, 3, MaxKeywords},
   sharedTitleCount : {0, 1},
   id : {1}]

\* server.js:828-858: the entry the loop makes of a candidate with the
\* measures m, and the entries it pushes to scored for it
scoredEntry(m) ==
  [score |-> finalScore(m.baseScore, m.sharedThemeCount, m.bigramJacc, m.unigramJacc,
                        m.sharedKeywordCount, m.sharedTitleCount),
   raw |-> m,
   myth |-> [id |-> m.id]]

\* one pass of the loop: the entry, what was pushed, and the pass before it
\* when the measures were taken from that pass
onePass(m, step, before) ==
  [t |-> "one", step |-> step, entry |-> scoredEntry(m),
   scored |-> keepQualified(<<scoredEntry(m)>>), before |-> before]

\* the loop scores a candidate with the measures m
ScoreOne(m) ==
  /\ calc' = onePass(m, "score", NoCalc)
  /\ UNCHANGED <<now, myths, parallels, SUGGEST_CACHE, req, dropped, stale>>

\* the same candidate with one more shared theme, all else equal
ScoreMoreThemes ==
  /\ calc.t = "one"
  /\ calc.entry.raw.sharedThemeCount < MaxThemes
  /\ calc' = onePass([calc.entry.raw EXCEPT !.sharedThemeCount = @ + 1], "themes",
                     [entry |-> calc.entry, scored |-> calc.scored])
  /\ UNCHANGED <<now, myths, parallels, SUGGEST_CACHE, req, dropped, stale>>

\* the same candidate without its shared title tokens, all else equal
ScoreNoTitleShare ==
  /\ calc.t = "one"
  /\ calc.entry.raw.sharedTitleCount > 0
  /\ calc' = onePass([calc.entry.raw EXCEPT !.sharedTitleCount = 0], "title",
                     [entry |-> calc.entry, scored |-> calc.scored])
  /\ UNCHANGED <<now, myths, parallels, SUGGEST_CACHE, req, dropped, stale>>

NextScore ==
  \/ \E m \in MeasureInputs : ScoreOne(m)
  \/ ScoreMoreThemes
  \/ ScoreNoTitleShare

SpecScore == Init /\ [][NextScore]_vars

(***************************************************************************)
(* SpecRank: the scoring loop over a pool of up to MaxPool candidates with *)
(* given measures, then the sort and slice of lines 861-862.               *)
(***************************************************************************)
MaxPool == 14        \* ids 1..MaxPool may be in the pool

\* baseScore and sharedThemeCount of the candidate with each id; the other
\* measures are 0
RankBase == <<5000, 5000, 0, 0, 2000, 5000, 100, 800, 5000, 2000, 0, 800, 5000, 100, 2000, 5000>>
RankThemes == <<0, 0, 2, 0, 1, 0, 2, 0, 0, 1, 3, 0, 0, 2, 1, 0>>

rankMeasures(id) ==
  [baseScore |-> RankBase[id], sharedThemeCount |-> RankThemes[id],
   bigramJacc |-> [num |-> 0, den |-> 1], unigramJacc |-> [num |-> 0, den |-> 1],
   sharedKeywordCount |-> 0, sharedTitleCount |-> 0, id |-> id]

InitRank ==
  /\ now = 0
  /\ myths = <<MythA, MythB>>
  /\ parallels = {}
  /\ SUGGEST_CACHE = [value |-> Null, ttlMs |-> ttlMs]
  /\ req = [r \in Req |-> Idle]
  /\ dropped = FALSE
  /\ calc = [t |-> "loop", i |-> 0, scored |-> <<>>]
  /\ stale = NoWrite

\* server.js:745-761: the record with the next id is not in the pool
RankSkip ==
  /\ calc.t = "loop"
  /\ calc.i < MaxPool
  /\ calc' = [calc EXCEPT !.i = @ + 1]
  /\ UNCHANGED <<now, myths, parallels, SUGGEST_CACHE, req, dropped, stale>>

\* server.js:796-859: one pass of the loop for the record with the next id
RankScore ==
  /\ calc.t = "loop"
  /\ calc.i < MaxPool
  /\ calc' = [calc EXCEPT !.i = @ + 1,
                          !.scored = @ \o keepQualified(<<scoredEntry(rankMeasures(calc.i + 1))>>)]
  /\ UNCHANGED <<now, myths, parallels, SUGGEST_CACHE, req, dropped, stale>>

\* server.js:861-862: after the loop, sort and slice
RankRespond ==
  /\ calc.t = "loop"
  /\ calc.i = MaxPool
  /\ calc' = [t |-> "ranked", scored |-> calc.scored, top |-> topK(calc.scored)]
  /\ UNCHANGED <<now, myths, parallels, SUGGEST_CACHE, req, dropped, stale>>

NextRank ==
  \/ RankSkip
  \/ RankScore
  \/ RankRespond

SpecRank == InitRank /\ [][NextRank]_vars

(***************************************************************************)
(* SpecText: preprocessToTokens on texts of up to MaxWords words, applied  *)
(* again to preprocessToString of the same text, and the bigram overlap    *)
(* (lines 806-810) of a token sequence with itself.                        *)
(***************************************************************************)
MaxWords == 3        \* a text has 0..MaxWords words

TextWords == {"The", "Flood", "floods", "waters", "uses", "butted", "agreed", "zeus", "xy"}

RECURSIVE wordSeqs(_)
wordSeqs(n) ==
  IF n = 0 THEN {<<>>}
  ELSE wordSeqs(n - 1) \cup {Append(ws, w) : ws \in wordSeqs(n - 1), w \in TextWords}

\* the texts: words separated by single spaces
TextInputs == {W(ws) : ws \in wordSeqs(MaxWords)}

\* preprocessToTokens(text)
Normalize(text) ==
  /\ calc = NoCalc
  /\ calc' = [t |-> "tokens", text |-> text, tokens |-> preprocessToTokens(text)]
  /\ UNCHANGED <<now, myths, parallels, SUGGEST_CACHE, req, dropped, stale>>

\* preprocessToTokens(preprocessToString(text))
NormalizeAgain ==
  /\ calc.t = "tokens"
  /\ calc' = [t |-> "again", text |-> calc.text, tokens |-> calc.tokens,
              again |-> preprocessToTokens(preprocessToString(calc.text))]
  /\ UNCHANGED <<now, myths, parallels, SUGGEST_CACHE, req, dropped, stale>>

\* server.js:806-810 with the tokens of the text on both sides
SelfOverlap ==
  /\ calc.t = "tokens"
  /\ calc' = [t |-> "self", text |-> calc.text, tokens |-> calc.tokens,
              bigramJacc |-> jaccard(toSet(ngramsFromTokens(calc.tokens)),
                                     toSet(ngramsFromTokens(calc.tokens)))]
  /\ UNCHANGED <<now, myths, parallels, SUGGEST_CACHE, req, dropped, stale>>

NextText ==
  \/ \E text \in TextInputs : Normalize(text)
  \/ NormalizeAgain
  \/ SelfOverlap

SpecText == Init /\ [][NextText]_vars

(***************************************************************************)
(* SpecPair: suggest for a source and one candidate (a snapshot of the two *)
(* records, no accepted parallels), and the same with the two swapped.     *)
(***************************************************************************)
PairRows == {MythA, MythB, MythBBadTags, MythC, MythD, MythE, MythF, MythG}

\* server.js:763-883 for source a and the pool <<b>>: the measures of the
\* loop's pass and the response
MeasurePair(a, b) ==
  /\ calc = NoCalc
  /\ a.id # b.id
  /\ calc' = [t |-> "pair", a |-> a, b |-> b,
              ab |-> scoreCandidate(a, <<b>>, 1).raw,
              answer |-> rankPool(a, <<b>>)]
  /\ UNCHANGED <<now, myths, parallels, SUGGEST_CACHE, req, dropped, stale>>

\* the pass of the loop for source b and candidate a
SwapPair ==
  /\ calc.t = "pair"
  /\ calc' = [t |-> "swapped", a |-> calc.a, b |-> calc.b, ab |-> calc.ab,
              ba |-> scoreCandidate(calc.b, <<calc.a>>, 1).raw]
  /\ UNCHANGED <<now, myths, parallels, SUGGEST_CACHE, req, dropped, stale>>

NextPair ==
  \/ \E a \in PairRows : \E b \in PairRows : MeasurePair(a, b)
  \/ SwapPair

SpecPair == Init /\ [][NextPair]_vars

(***************************************************************************)
(* Properties.                                                             *)
(***************************************************************************)
\* the step in which slot r takes a suggest request whose mythId passes line
\* 698, so that the handler calls buildOrGetCache (line 712)
suggestCallsCache(r) ==
  req[r].pc = "idle" /\ req'[r].kind = "suggest" /\ req'[r].status # 400

\* the step in which slot r takes a request of the admin rebuild route
rebuildCallsCache(r) == req[r].pc = "idle" /\ req'[r].kind = "rebuild"

\* the step in which the rows of the corpus query arrive at slot r's call
rowsArrive(r) ==
  req[r].pc = "corpusReply" /\ req[r].res # Failed /\ req'[r].pc # "corpusReply"

\* the stored value exists and is younger than 5 minutes
withinTtl == SUGGEST_CACHE.value # Null /\ now - SUGGEST_CACHE.value.ts < 5 * 60 * 1000

\* v holds, for the rows of one corpus query, one document per row, built
\* from that row with one titleBoost, and the id map of the same rows
completeSnapshot(v, rows) ==
  /\ v # Null
  /\ v.mythList = rows
  /\ DOMAIN v.docs = 1..Len(rows)
  /\ DOMAIN v.idToRow = {rows[i].id : i \in 1..Len(rows)}
  /\ \E tb \in {2, 3} :
       \A i \in 1..Len(rows) :
         /\ v.docs[i] = buildDocForRow(rows[i], [titleBoost |-> tb])
         /\ v.idToRow[rows[i].id] = [row |-> rows[i], doc |-> v.docs[i]]

\* C1: when a suggest call starts after another suggest call has fetched the
\* corpus and been answered, the two calls have issued one corpus fetch in
\* total if the stored snapshot is inside its TTL window, and two if the
\* cache has been invalidated and is empty; a call issues a fetch only when
\* it starts.
C1_OneFetchWithinTtl ==
  [][/\ \A r1 \in Req : \A r2 \in Req \ {r1} :
          (/\ req[r1].kind = "suggest" /\ req[r1].pc = "done"
           /\ req[r1].status = 200 /\ req[r1].nCorpus = 1
           /\ suggestCallsCache(r2)) =>
            /\ withinTtl => req[r1].nCorpus + req'[r2].nCorpus = 1
            /\ SUGGEST_CACHE.value = Null =>
                 req[r1].nCorpus + req'[r2].nCorpus = 2 /\ req'[r2].pc = "corpusQuery"
     /\ \A r \in Req :
          req'[r].nCorpus # req[r].nCorpus => req[r].pc = "idle" \/ req'[r].pc = "idle"]_vars

\* C1 witness: the first call fetched and was answered with a list, the second
\* call, half a TTL later, got the snapshot without a fetch
C1_Witness ==
  /\ req[1].kind = "suggest" /\ req[1].pc = "done" /\ req[1].status = 200
  /\ req[1].nCorpus = 1
  /\ req[2].kind = "suggest" /\ req[2].pc = "linksQuery" /\ req[2].nCorpus = 0
  /\ now > 0 /\ withinTtl

\* C2: a call of buildOrGetCache that follows an invalidation (line 690 of a
\* successful POST /api/parallels, or line 551 of the admin rebuild route)
\* issues a corpus fetch, whatever else is in flight.
C2_InvalidationForcesFetch ==
  [][\A r \in Req :
       /\ (dropped /\ suggestCallsCache(r)) =>
            req'[r].nCorpus = 1 /\ req'[r].pc = "corpusQuery"
       /\ rebuildCallsCache(r) =>
            req'[r].nCorpus = 1 /\ req'[r].pc = "corpusQuery"]_vars

\* C3: a call of buildOrGetCache returns the stored value, unchanged and with
\* no fetch, exactly when the value exists and is younger than the TTL;
\* otherwise it issues the corpus query, and when the rows arrive it stores a
\* value with one document per row, stamped with the time of the call.
C3_HitIffFresh ==
  [][\A r \in Req :
       /\ (suggestCallsCache(r) /\ withinTtl) =>
            /\ req'[r].nCorpus = 0 /\ req'[r].pc # "corpusQuery"
            /\ SUGGEST_CACHE' = SUGGEST_CACHE
            /\ req'[r].pc = "linksQuery" => req'[r].cache = SUGGEST_CACHE.value
       /\ (suggestCallsCache(r) /\ ~withinTtl) =>
            /\ req'[r].nCorpus = 1 /\ req'[r].pc = "corpusQuery"
            /\ req'[r].cache = Null
       /\ rebuildCallsCache(r) =>
            /\ SUGGEST_CACHE'.value = Null
            /\ req'[r].nCorpus = 1 /\ req'[r].pc = "corpusQuery"
       /\ rowsArrive(r) =>
            /\ SUGGEST_CACHE'.value.ts = req[r].now
            /\ SUGGEST_CACHE'.value.mythList = req[r].res.rows
            /\ Len(SUGGEST_CACHE'.value.docs) = Len(req[r].res.rows)
            /\ req'[r].pc = "linksQuery" => req'[r].cache = SUGGEST_CACHE'.value]_vars

\* C3 witness: a call has issued the corpus query although a value is stored,
\* because the value was exactly TTL old when the call started
C3_Witness ==
  \E r \in Req :
    /\ req[r].kind = "suggest" /\ req[r].pc = "corpusQuery"
    /\ SUGGEST_CACHE.value # Null
    /\ req[r].now - SUGGEST_CACHE.value.ts = 5 * 60 * 1000

\* C4: in every state SUGGEST_CACHE.value is empty or a complete snapshot of
\* the rows of one corpus query, and so is the snapshot every request holds.
C4_NoHalfBuiltSnapshot ==
  /\ SUGGEST_CACHE.value # Null =>
       \E rows \in Corpora : completeSnapshot(SUGGEST_CACHE.value, rows)
  /\ \A r \in Req :
       req[r].cache # Null => \E rows \in Corpora : completeSnapshot(req[r].cache, rows)

\* C4 witness: a request reads the stored snapshot while the rows of another
\* request's rebuild, which differ from the snapshot's, are on their way
C4_Witness ==
  \E r1 \in Req : \E r2 \in Req \ {r1} :
    /\ req[r1].pc = "linksQuery" /\ req[r1].cache = SUGGEST_CACHE.value
    /\ req[r2].pc = "corpusReply" /\ req[r2].res # Failed
    /\ req[r2].res.rows # SUGGEST_CACHE.value.mythList

\* C5: the handler of a suggest request whose client went away while the
\* corpus query was pending goes on: the query is answered and the call
\* leaves the rebuild; when the rows arrive the complete snapshot is stored,
\* and a later call inside the TTL gets the stored snapshot without a fetch.
C5_AbortedRebuildCompletes ==
  /\ \A r \in Req :
       (req[r].abortedAt = "corpusQuery" /\ req[r].pc = "corpusQuery")
         ~> (req[r].pc \notin {"corpusQuery", "corpusReply"})
  /\ [][\A r \in Req :
          /\ (req[r].abortedAt = "corpusQuery" /\ rowsArrive(r)) =>
               /\ completeSnapshot(SUGGEST_CACHE'.value, req[r].res.rows)
               /\ SUGGEST_CACHE'.value.ts = req[r].now
          /\ (suggestCallsCache(r) /\ withinTtl) =>
               /\ req'[r].nCorpus = 0
               /\ req'[r].pc = "linksQuery" => req'[r].cache = SUGGEST_CACHE.value]_vars

\* C5 witness: the snapshot stored by the rebuild of an aborted request has
\* been handed, half a TTL later, to another request that issued no fetch
C5_Witness ==
  \E r1 \in Req : \E r2 \in Req \ {r1} :
    /\ req[r1].abortedAt = "corpusQuery" /\ req[r1].pc = "linksQuery"
    /\ SUGGEST_CACHE.value = req[r1].cache
    /\ req[r2].kind = "suggest" /\ req[r2].pc = "linksQuery" /\ req[r2].nCorpus = 0
    /\ req[r2].cache = req[r1].cache
    /\ now - SUGGEST_CACHE.value.ts > 0

\* the mythId v is a positive integer, no fraction, given as a number or as digits
wellFormedId(v) ==
  Number(v).t = "number" /\ Number(v).half = 0 /\ Number(v).int > 0

\* the snapshot v has a record with the id the request body names
idInSnapshot(v, mythId) ==
  /\ Number(mythId).t = "number" /\ Number(mythId).half = 0
  /\ \E i \in 1..Len(v.mythList) : v.mythList[i].id = Number(mythId).int

\* C6: a suggest request whose mythId is not a well-formed positive integer
\* (missing, non-numeric, zero, negative, fractional) is answered with 400,
\* unless a store query of the request failed.
C6_NotPositiveIntegerIs400 ==
  \A r \in Req :
    (/\ req[r].kind = "suggest" /\ req[r].pc = "done"
     /\ req[r].failed = "none" /\ ~wellFormedId(req[r].arg)) =>
      req[r].status = 400

\* C7: a suggest request the handler rejects as invalid (a missing or
\* non-numeric mythId) is answered 400 in the step that takes it, with no
\* corpus query and no links query issued and SUGGEST_CACHE left as it was.
C7_RejectedBeforeStoreAccess ==
  [][\A r \in Req :
       /\ (req'[r].kind = "suggest" /\ req'[r].arg \in {Undefined, Text("abc")}) =>
            /\ req'[r].pc = "done" /\ req'[r].status = 400
            /\ req'[r].body = ErrorBody("invalid mythId")
            /\ req'[r].nCorpus = 0 /\ req'[r].nLinks = 0
       /\ (req'[r].kind = "suggest" /\ req'[r].status = 400) =>
            /\ req'[r].nCorpus = 0 /\ req'[r].nLinks = 0
            /\ req[r].status # 400 => SUGGEST_CACHE' = SUGGEST_CACHE]_vars

\* C7 witness: a request without mythId was rejected while a snapshot was
\* stored, and it has issued no query
C7_Witness ==
  /\ req[1].kind = "suggest" /\ req[1].arg = Undefined /\ req[1].status = 400
  /\ req[1].nCorpus = 0 /\ req[1].nLinks = 0
  /\ SUGGEST_CACHE.value # Null

\* C8: when the handler gets its snapshot (the stored one, or the one built
\* from the rows that arrive) and the snapshot has no record with the
\* request's id, the request is answered 404 "source myth not found", with no
\* list and no links query; an id the snapshot has is never answered 404.
C8_AbsentIdIs404 ==
  [][\A r \in Req :
       /\ ((suggestCallsCache(r) /\ withinTtl) \/ (req[r].kind = "suggest" /\ rowsArrive(r))) =>
            IF idInSnapshot(SUGGEST_CACHE'.value, req'[r].arg)
            THEN req'[r].pc = "linksQuery" /\ req'[r].status = 0
            ELSE /\ req'[r].pc = "done" /\ req'[r].status = 404
                 /\ req'[r].body = ErrorBody("source myth not found")
                 /\ req'[r].nLinks = 0
       /\ (req'[r].kind = "suggest" /\ req'[r].status = 404) =>
            /\ wellFormedId(req'[r].arg) => ~idInSnapshot(SUGGEST_CACHE'.value, req'[r].arg)
            /\ req'[r].body # ErrorBody("invalid mythId")]_vars

\* C8 witness: id 3 asked for while the snapshot holds the records 1 and 2
C8_Witness ==
  /\ req[1].kind = "suggest" /\ req[1].arg = Num(3, 0) /\ req[1].status = 404
  /\ SUGGEST_CACHE.value # Null
  /\ SUGGEST_CACHE.value.mythList = <<MythA, MythB>>

\* C9: a suggest request whose corpus query or links query failed is answered
\* 500 with an error body, never with a list, and has issued each query at
\* most once; the failure of the corpus query ends the request in the step
\* that receives it.
C9_StoreFailureIs500 ==
  /\ [](\A r \in Req :
          (req[r].kind = "suggest" /\ req[r].failed \in {"corpus", "links"}) =>
            /\ req[r].pc = "done" /\ req[r].status = 500
            /\ req[r].body = ErrorBody("server error")
            /\ req[r].nCorpus <= 1 /\ req[r].nLinks <= 1)
  /\ [][\A r \in Req :
          /\ (req[r].kind = "suggest" /\ req[r].pc = "corpusReply" /\ req[r].res = Failed
              /\ req'[r] # req[r]) =>
               /\ req'[r].pc = "done" /\ req'[r].status = 500 /\ req'[r].failed = "corpus"
               /\ req'[r].nCorpus = req[r].nCorpus /\ req'[r].nLinks = 0
          /\ (req[r].kind = "suggest" /\ req'[r].failed = "links" /\ req[r].failed = "none") =>
               /\ req'[r].nCorpus = req[r].nCorpus /\ req'[r].nLinks = req[r].nLinks]_vars

\* C9 witness: the links query of a request that had its snapshot failed
C9_Witness ==
  /\ req[1].kind = "suggest" /\ req[1].failed = "links" /\ req[1].status = 500
  /\ req[1].nLinks = 1

\* C10: a suggest request fails (500) only when a store query failed; the
\* malformed tags or themes of a record do not make it fail.
C10_MalformedTagsNeverFail ==
  \A r \in Req :
    (req[r].kind = "suggest" /\ req[r].pc = "done" /\ req[r].failed = "none") =>
      req[r].status # 500

\* the step in which the rows of the links query arrive at slot r's suggest
\* request and the handler runs to its response
linksArrive(r) ==
  /\ req[r].kind = "suggest" /\ req[r].pc = "linksQuery"
  /\ req'[r].pc = "done" /\ req'[r].failed = "none"

\* the records of the request's snapshot other than the source and the
\* records an accepted parallel links from the source
eligibleRows(r) ==
  {m \in Range(req[r].cache.mythList) :
     /\ m.id # Number(req[r].arg).int
     /\ <<Number(req[r].arg).int, m.id>> \notin parallels}

\* the record of the request's snapshot with the id the request names
sourceOf(r) ==
  CHOOSE m \in Range(req[r].cache.mythList) : m.id = Number(req[r].arg).int

\* the theme names, in lower case, of a record whose themes are an array or null
themeNames(row) ==
  IF row.themes.t = "array"
  THEN {toLowerCase(row.themes.items[i]) : i \in 1..Len(row.themes.items)}
  ELSE {}

\* the eligible records that share a theme with the source
sharingRows(r) ==
  {m \in eligibleRows(r) : themeNames(m) \cap themeNames(sourceOf(r)) # {}}

\* the ids of the records of a response body with a list
returnedIds(body) == {body.json[i].myth.id : i \in 1..Len(body.json)}

\* C11: the list a suggest request is answered with holds neither the source
\* nor a record that the parallels table links from the source.
C11_SourceAndLinkedExcluded ==
  [][\A r \in Req :
       (linksArrive(r) /\ req'[r].status = 200) =>
         /\ Number(req[r].arg).int \notin returnedIds(req'[r].body)
         /\ \A id \in returnedIds(req'[r].body) :
              <<Number(req[r].arg).int, id>> \notin parallels
         /\ returnedIds(req'[r].body) \subseteq {m.id : m \in eligibleRows(r)}]_vars

\* C11 witness: record 2 is linked from 5 and left out of the answer to 5,
\* which holds record 1; unlinked, record 2 scores like record 1's answer to 2
C11_Witness ==
  \E r \in Req :
    /\ req[r].kind = "suggest" /\ req[r].pc = "done" /\ req[r].arg = Num(5, 0)
    /\ parallels = {<<5, 2>>} /\ Len(myths) = 4
    /\ req[r].status = 200 /\ returnedIds(req[r].body) = {1}

\* C12: the pool that is scored is, in snapshot order, the eligible records
\* that share a theme with the source when the source has themes and some
\* eligible record shares one, and all eligible records otherwise; it is
\* empty only if no record is eligible.
C12_PoolNarrowing ==
  [][\A r \in Req :
       linksArrive(r) =>
         LET pool == candidatePool(req[r].cache, Number(req[r].arg).int,
                                   linkedFrom(Number(req[r].arg)))
             expected == IF themeNames(sourceOf(r)) # {} /\ sharingRows(r) # {}
                         THEN sharingRows(r) ELSE eligibleRows(r)
         IN /\ Range(pool) = expected
            /\ \A i \in 1..Len(pool) : \A j \in 1..Len(pool) : i < j => pool[i].id < pool[j].id
            /\ eligibleRows(r) # {} => pool # <<>>
            /\ req'[r].status = 200 =>
                 returnedIds(req'[r].body) \subseteq {m.id : m \in expected}]_vars

\* C12 witness: the source 1 has themes, its only theme-sharing record 2 is
\* linked, and the answer holds record 5, which has no theme
C12_Witness ==
  \E r \in Req :
    /\ req[r].kind = "suggest" /\ req[r].pc = "done" /\ req[r].arg = Num(1, 0)
    /\ parallels = {<<1, 2>>} /\ Len(myths) = 4
    /\ req[r].status = 200 /\ Len(req[r].body.json) = 1
    /\ req[r].body.json[1].myth.id = 5
    /\ req[r].body.json[1].rationale.sharedThemeCount = 0

\* C16: two suggest requests for the same id, answered on the same myths
\* table and parallels table, get the same status and the same body, whether
\* the snapshot was built by the request itself, by an earlier request or by
\* the rebuild route.
C16_SameInputsSameAnswer ==
  \A r1 \in Req : \A r2 \in Req :
    (/\ req[r1].kind = "suggest" /\ req[r1].pc = "done" /\ req[r1].failed = "none"
     /\ req[r2].kind = "suggest" /\ req[r2].pc = "done" /\ req[r2].failed = "none"
     /\ req[r1].arg = req[r2].arg) =>
      req[r1].status = req[r2].status /\ req[r1].body = req[r2].body

\* C16 witness: two answers for id 5 with the same non-empty list, one to
\* the request that fetched the corpus, one to a request served from the cache
C16_Witness ==
  /\ req[1].kind = "suggest" /\ req[1].pc = "done" /\ req[1].arg = Num(5, 0)
  /\ req[2].kind = "suggest" /\ req[2].pc = "done" /\ req[2].arg = Num(5, 0)
  /\ req[1].nCorpus = 1 /\ req[2].nCorpus = 0
  /\ req[1].status = 200 /\ Len(req[1].body.json) = 2
  /\ req[2].body = req[1].body

\* C17: when no record of the snapshot is eligible (the snapshot holds the
\* source only, or every other record is linked from the source) the request
\* is answered 200 with the empty list.
C17_EmptyPoolIsEmptyList ==
  [][\A r \in Req :
       (linksArrive(r) /\ eligibleRows(r) = {}) =>
         req'[r].status = 200 /\ req'[r].body = JsonBody(<<>>)]_vars

\* C17 witness: the three other records are linked from the source 1
C17_Witness ==
  \E r \in Req :
    /\ req[r].kind = "suggest" /\ req[r].pc = "done" /\ req[r].arg = Num(1, 0)
    /\ parallels = {<<1, 2>>, <<1, 4>>, <<1, 5>>} /\ Len(myths) = 4
    /\ req[r].status = 200 /\ req[r].body = JsonBody(<<>>)

\* C13: the loop pushes the entry of a candidate exactly when the candidate
\* shares at least 2 themes with the source or its finalScore is at least
\* 0.035 (350 in 1/10000).
C13_KeptIffThemesOrScore ==
  calc.t = "one" =>
    IF calc.entry.raw.sharedThemeCount >= 2 \/ calc.entry.score >= 350
    THEN calc.scored = <<calc.entry>>
    ELSE calc.scored = <<>>

\* C13 witness: a candidate with two shared themes and finalScore 0 is kept
C13_Witness ==
  /\ calc.t = "one" /\ calc.entry.raw.sharedThemeCount = 2
  /\ calc.entry.score = 0 /\ calc.scored = <<calc.entry>>

\* C18: scored again with one more shared theme and all else equal, a
\* candidate that was kept is kept and its finalScore is not lower.
C18_MoreThemesNeverRevoke ==
  (calc.t = "one" /\ calc.step = "themes") =>
    /\ calc.before.scored # <<>> => calc.scored # <<>>
    /\ calc.entry.score >= calc.before.entry.score
    /\ calc.entry.raw = [calc.before.entry.raw EXCEPT !.sharedThemeCount = @ + 1]

\* C18 witness: from 1 to 2 shared themes a rejected candidate becomes kept
\* and its finalScore rises
C18_Witness ==
  /\ calc.t = "one" /\ calc.step = "themes"
  /\ calc.before.entry.raw.sharedThemeCount = 1 /\ calc.entry.raw.sharedThemeCount = 2
  /\ calc.before.scored = <<>> /\ calc.scored # <<>>
  /\ calc.entry.score > calc.before.entry.score

\* C19: finalScore is baseScore x (1 + min(themes, 3) x 0.45 + bigramJacc x
\* 1.1 + unigramJacc x 0.35 + min(keywords, 3) x 0.5) x titlePenalty, with
\* titlePenalty 0.6 when sharedTitleCount > 0 and baseScore < 0.08 and 1
\* otherwise (scores in 1/10000, boosts in 1/1000, rounded down); it is 0
\* when baseScore is 0.
C19_FinalScoreFormula ==
  calc.t = "one" =>
    LET m == calc.entry.raw
        themes == IF m.sharedThemeCount > 3 THEN 3 ELSE m.sharedThemeCount
        keywords == IF m.sharedKeywordCount > 3 THEN 3 ELSE m.sharedKeywordCount
        factor == 1000 + themes * 450 + (m.bigramJacc.num * 1100) \div m.bigramJacc.den
                       + (m.unigramJacc.num * 350) \div m.unigramJacc.den + keywords * 500
        unpenalized == (m.baseScore * factor) \div 1000
    IN /\ calc.entry.score =
            IF m.sharedTitleCount > 0 /\ m.baseScore < 800
            THEN (unpenalized * 6) \div 10 ELSE unpenalized
       /\ m.baseScore = 0 => calc.entry.score = 0

\* C19 witness: 4 shared themes and 4 shared keywords count as 3 each:
\* 0.5 x (1 + 1.35 + 0.55 + 0.116 + 1.5) = 2.258
C19_Witness ==
  /\ calc.t = "one" /\ calc.entry.raw.baseScore = 5000
  /\ calc.entry.raw.sharedThemeCount = 4 /\ calc.entry.raw.sharedKeywordCount = 4
  /\ calc.entry.raw.bigramJacc.num = 1 /\ calc.entry.raw.unigramJacc.num = 1
  /\ calc.entry.score = 22580

\* C20 as stated: a candidate that shares a title token and has baseScore <
\* 0.08 has a strictly lower finalScore than the same candidate without the
\* shared title token; with baseScore >= 0.08 the two are equal.
C20_PenaltyStrictlyLowers ==
  (calc.t = "one" /\ calc.step = "title") =>
    IF calc.before.entry.raw.baseScore < 800
    THEN calc.before.entry.score < calc.entry.score
    ELSE calc.before.entry.score = calc.entry.score

\* C20 amended: with 0 < baseScore < 0.08 the finalScore with the shared
\* title token is strictly lower than without it; with baseScore = 0 both
\* are 0; with baseScore >= 0.08 the two are equal.
C20_PenaltyLowersPositive ==
  (calc.t = "one" /\ calc.step = "title") =>
    /\ calc.entry.raw = [calc.before.entry.raw EXCEPT !.sharedTitleCount = 0]
    /\ (0 < calc.before.entry.raw.baseScore /\ calc.before.entry.raw.baseScore < 800) =>
         calc.before.entry.score < calc.entry.score
    /\ calc.before.entry.raw.baseScore = 0 =>
         calc.before.entry.score = 0 /\ calc.entry.score = 0
    /\ calc.before.entry.raw.baseScore >= 800 =>
         calc.before.entry.score = calc.entry.score

\* C20 witness: baseScore 0.0799 with a shared title token scores 0.6 of
\* what it scores without
C20_Witness ==
  /\ calc.t = "one" /\ calc.step = "title"
  /\ calc.before.entry.raw.baseScore = 799 /\ calc.before.entry.raw.sharedThemeCount = 0
  /\ calc.before.entry.raw.sharedKeywordCount = 0
  /\ calc.before.entry.raw.bigramJacc.num = 0 /\ calc.before.entry.raw.unigramJacc.num = 0
  /\ calc.before.entry.score = 479 /\ calc.entry.score = 799

\* the ids of the entries of a sequence of scored entries
idsOf(entries) == {entries[k].myth.id : k \in 1..Len(entries)}

\* C14: the returned entries are in descending order of finalScore, entries
\* with equal finalScore in the order the loop met them (ascending id), and
\* an entry accepted for its shared themes is placed by its finalScore.
C14_DescendingStable ==
  calc.t = "ranked" =>
    \A a \in 1..Len(calc.top) : \A b \in 1..Len(calc.top) :
      a < b =>
        /\ calc.top[a].score >= calc.top[b].score
        /\ calc.top[a].score = calc.top[b].score => calc.top[a].myth.id < calc.top[b].myth.id

\* C14 witness: ids 1 and 2 tie at 0.5 and come first in that order; id 3,
\* accepted for two shared themes with finalScore 0, is last
C14_Witness ==
  /\ calc.t = "ranked" /\ Len(calc.top) = 4
  /\ calc.top[1].myth.id = 1 /\ calc.top[2].myth.id = 2 /\ calc.top[1].score = calc.top[2].score
  /\ calc.top[3].myth.id = 5 /\ calc.top[3].raw.sharedThemeCount = 1
  /\ calc.top[4].myth.id = 3 /\ calc.top[4].raw.sharedThemeCount = 2 /\ calc.top[4].score = 0

\* C15: the returned list has min(12, number of qualifying candidates)
\* entries, all of them qualifying candidates, and no qualifying candidate
\* left out has a higher finalScore than a returned one.
C15_TopTwelve ==
  calc.t = "ranked" =>
    /\ Len(calc.top) = (IF Len(calc.scored) < 12 THEN Len(calc.scored) ELSE 12)
    /\ Cardinality(idsOf(calc.top)) = Len(calc.top)
    /\ \A a \in 1..Len(calc.top) : \E k \in 1..Len(calc.scored) : calc.scored[k] = calc.top[a]
    /\ \A k \in 1..Len(calc.scored) :
         calc.scored[k].myth.id \notin idsOf(calc.top) =>
           \A a \in 1..Len(calc.top) : calc.top[a].score >= calc.scored[k].score

\* C15 witness: 13 candidates qualify and 12 are returned; the one left out
\* (id 11, finalScore 0) was not the last the loop met, and id 14 with a
\* higher finalScore is returned
C15_Witness ==
  /\ calc.t = "ranked" /\ Len(calc.scored) = 13 /\ Len(calc.top) = 12
  /\ 11 \in idsOf(calc.scored) /\ 11 \notin idsOf(calc.top)
  /\ 14 \in idsOf(calc.top)

\* C21 as stated: the bigram overlap of a non-empty token sequence with
\* itself is 1, also when the sequence has one token.
C21_SelfOverlapIsOne ==
  (calc.t = "self" /\ calc.tokens # <<>>) => calc.bigramJacc.num = calc.bigramJacc.den

\* C21 amended: the bigram overlap of a token sequence with itself is 1 when
\* the sequence has at least two tokens, and 0 when it has one token or none.
C21_SelfOverlapFromTwoTokens ==
  calc.t = "self" =>
    /\ calc.bigramJacc.den > 0
    /\ Len(calc.tokens) >= 2 => calc.bigramJacc.num = calc.bigramJacc.den
    /\ Len(calc.tokens) <= 1 => calc.bigramJacc.num = 0

\* C21 witness: the two tokens of "Flood waters" overlap with themselves in
\* their one bigram
C21_Witness ==
  /\ calc.t = "self" /\ calc.tokens = <<"flood", "water">>
  /\ calc.bigramJacc = [num |-> 1, den |-> 1]

\* C24 as stated: normalizing the space-joined output of normalize gives the
\* output again, for every text.
C24_NormalizeIdempotent ==
  calc.t = "again" => calc.again = calc.tokens

\* C24 amended: normalizing the space-joined output of normalize gives the
\* output again when every token of the output has more than 2 characters,
\* is in neither stopword set and is its own stem.
C24_IdempotentOnStableTokens ==
  calc.t = "again" =>
    ((\A k \in 1..Len(calc.tokens) :
        /\ calc.tokens[k] \notin {"us", "xy"}
        /\ calc.tokens[k] \notin STOPWORDS \cup ENTITY_STOPWORDS
        /\ calc.tokens[k] \notin {"agre"})
     => calc.again = calc.tokens)

\* C24 witness: "The floods waters" gives flood, water, and so does
\* "flood water"
C24_Witness ==
  /\ calc.t = "again" /\ calc.text = W(<<"The", "floods", "waters">>)
  /\ calc.tokens = <<"flood", "water">> /\ calc.again = <<"flood", "water">>

\* C22: bigramJaccard, unigramJaccard, sharedTitleCount, sharedThemeCount and
\* sharedKeywordCount of a source and a candidate have the same values when
\* the two are swapped.
C22_MeasuresSymmetric ==
  calc.t = "swapped" =>
    /\ calc.ab.bigramJacc = calc.ba.bigramJacc
    /\ calc.ab.unigramJacc = calc.ba.unigramJacc
    /\ calc.ab.sharedTitleCount = calc.ba.sharedTitleCount
    /\ calc.ab.sharedThemeCount = calc.ba.sharedThemeCount
    /\ calc.ab.sharedKeywordCount = calc.ba.sharedKeywordCount

\* C22 witness: MythB has 6 tokens and MythA 5, 4 of them common, and two
\* common themes, whichever of the two is the source
C22_Witness ==
  /\ calc.t = "swapped" /\ calc.a = MythB /\ calc.b = MythA
  /\ calc.ab.unigramJacc = [num |-> 4, den |-> 7] /\ calc.ba.unigramJacc = [num |-> 4, den |-> 7]
  /\ calc.ab.sharedThemeCount = 2 /\ calc.ba.sharedThemeCount = 2

\* the row has no token in title, summary and content
noTokens(row) == preprocessToTokens(allText(row)) = <<>>

\* the document of the row (line 765) is the empty string
emptyDoc(row) == buildDocForRow(row, [titleBoost |-> 3]) = <<>>

\* C23: with a source or a candidate without tokens, both Jaccard measures
\* and the shared keyword count are 0, and so are the shared title count
\* without title tokens and the shared theme count without themes; with an
\* empty document on either side the cosine is 0; and the response is the
\* normal one (status 200), unless a returned record's tags or themes text
\* fails to parse (claim C10).
C23_EmptyInputsGiveZero ==
  calc.t = "pair" =>
    /\ (noTokens(calc.a) \/ noTokens(calc.b)) =>
         /\ calc.ab.bigramJacc.num = 0 /\ calc.ab.bigramJacc.den > 0
         /\ calc.ab.unigramJacc.num = 0 /\ calc.ab.unigramJacc.den > 0
         /\ calc.ab.sharedKeywordCount = 0
    /\ (preprocessToTokens(calc.a.title) = <<>> \/ preprocessToTokens(calc.b.title) = <<>>) =>
         calc.ab.sharedTitleCount = 0
    /\ (extractThemes(calc.a) = <<>> \/ extractThemes(calc.b) = <<>>) =>
         calc.ab.sharedThemeCount = 0
    /\ (emptyDoc(calc.a) \/ emptyDoc(calc.b)) =>
         /\ calc.ab.baseScore = 0
         /\ \/ calc.answer.status = 200
            \/ calc.ab.sharedThemeCount >= 2 /\ (~outTags(calc.b).ok \/ ~outThemes(calc.b).ok)

\* C23 witness: source MythG and candidate MythF have no tokens and empty
\* documents; all measures are 0 and the response is the empty list
C23_Witness ==
  /\ calc.t = "pair" /\ calc.a = MythG /\ calc.b = MythF
  /\ noTokens(MythG) /\ noTokens(MythF) /\ emptyDoc(MythG) /\ emptyDoc(MythF)
  /\ calc.ab.baseScore = 0 /\ calc.ab.unigramJacc = [num |-> 0, den |-> 1]
  /\ calc.answer = [status |-> 200, body |-> <<>>]

\* C25: the answer of a suggest request is the answer computed on a snapshot
\* of the same records built with titleBoost 3, whichever titleBoost the
\* snapshot the request was served from was built with (2 by the rebuild
\* route, 3 by suggest).
C25_AnswerIgnoresSnapshotBoost ==
  [][\A r \in Req :
       linksArrive(r) =>
         LET numericId == Number(req[r].arg).int
             built3 == buildValue(0, req[r].cache.mythList, [titleBoost |-> 3])
             answer == suggestRespond(built3, numericId,
                                      {id \in 1..7 : <<numericId, id>> \in parallels})
         IN /\ req'[r].status = answer.status
            /\ answer.status = 200 => req'[r].body = JsonBody(answer.body)]_vars

\* C25 witness: the rebuild route built the stored snapshot (the title of
\* record 1 is twice in its document), and a suggest request for 1 served
\* from it without a fetch got record 2 with the score 0.5228
C25_Witness ==
  \E r \in Req :
    /\ req[r].kind = "suggest" /\ req[r].pc = "done" /\ req[r].arg = Num(1, 0)
    /\ req[r].nCorpus = 0 /\ req[r].status = 200
    /\ parallels = {} /\ Len(myths) = 4
    /\ SUGGEST_CACHE.value # Null
    /\ SUGGEST_CACHE.value.docs[1] = buildDocForRow(MythA, [titleBoost |-> 2])
    /\ SUGGEST_CACHE.value.docs[1] # buildDocForRow(MythA, [titleBoost |-> 3])
    /\ Len(req[r].body.json) = 1 /\ req[r].body.json[1].myth.id = 2
    /\ req[r].body.json[1].score = 5228

\* C30: suggest for A leaves a record B of the snapshot out of the records
\* it considers exactly when B is A or the parallels table holds (A, B); a
\* link stored as (B, A) only leaves B among them, and B can be returned.
C30_ExclusionIsDirectional ==
  [][\A r \in Req :
       linksArrive(r) =>
         LET A == Number(req[r].arg).int
             considered == {m.id : m \in Range(rawCandidates(req[r].cache.mythList, A,
                                                          linkedFrom(Number(req[r].arg))))}
         IN /\ \A m \in Range(req[r].cache.mythList) :
                 m.id \notin considered <=> (m.id = A \/ <<A, m.id>> \in parallels)
            /\ \A m \in Range(req[r].cache.mythList) :
                 (m.id # A /\ <<m.id, A>> \in parallels /\ <<A, m.id>> \notin parallels) =>
                   m.id \in considered
            /\ req'[r].status = 200 =>
                 \A id \in returnedIds(req'[r].body) : <<A, id>> \notin parallels]_vars

\* C30 witness: the one link is (2, 1), and the answer to suggest for 1 holds
\* record 2
C30_Witness ==
  \E r \in Req :
    /\ req[r].kind = "suggest" /\ req[r].pc = "done" /\ req[r].arg = Num(1, 0)
    /\ parallels = {<<2, 1>>} /\ Len(myths) = 4
    /\ req[r].status = 200 /\ returnedIds(req[r].body) = {2}

\* C27: the timestamp of the stored snapshot never decreases: a rebuild never
\* replaces the stored snapshot by one with an older timestamp.
C27_TimestampNeverDecreases ==
  [][(SUGGEST_CACHE.value # Null /\ SUGGEST_CACHE'.value # Null) =>
       SUGGEST_CACHE'.value.ts >= SUGGEST_CACHE.value.ts]_vars

\* C28 as stated: at most one corpus fetch is in flight at any time.
C28_OneFetchInFlight == Cardinality(fetching(req)) <= 1

\* C28 amended: a suggest call that finds no fresh value issues a corpus
\* fetch of its own, also while other calls wait for theirs, so that there
\* can be one fetch in flight per request; a call that finds a fresh value
\* issues none, and no request has more than one.
C28_OneFetchPerMissingCall ==
  [][\A r \in Req :
       /\ (suggestCallsCache(r) /\ ~withinTtl) => fetching(req') = fetching(req) \cup {r}
       /\ (suggestCallsCache(r) /\ withinTtl) => fetching(req') = fetching(req)
       /\ rebuildCallsCache(r) => fetching(req') = fetching(req) \cup {r}
       /\ req'[r].nCorpus <= 1]_vars

\* C28 witness: two suggest calls wait for their corpus fetches at once
C28_Witness ==
  /\ req[1].kind = "suggest" /\ req[2].kind = "suggest"
  /\ fetching(req) = {1, 2}
  /\ req[1].nCorpus = 1 /\ req[2].nCorpus = 1

\* C29: in the step in which a failed corpus query reaches its call, the
\* cache is left as it is and the request is answered 500; the store's step
\* for the query leaves the cache as it is too; and a call that starts after
\* a failed one and finds no fresh value issues the query again.
C29_FailedFetchStoresNothing ==
  [][\A r \in Req :
       /\ (req[r].pc = "corpusReply" /\ req[r].res = Failed /\ req'[r] # req[r]) =>
            /\ SUGGEST_CACHE' = SUGGEST_CACHE
            /\ req'[r].pc = "done" /\ req'[r].status = 500 /\ req'[r].failed = "corpus"
       /\ (req[r].pc = "corpusQuery" /\ req'[r].pc = "corpusReply") =>
            SUGGEST_CACHE' = SUGGEST_CACHE
       /\ \A q \in Req \ {r} :
            (/\ req[q].pc = "done" /\ req[q].failed = "corpus"
             /\ suggestCallsCache(r) /\ ~withinTtl) =>
              req'[r].pc = "corpusQuery" /\ req'[r].nCorpus = 1]_vars

\* C29 witness: a call that found a snapshot of age TTL was answered 500 for
\* its failed fetch, and the same stale snapshot is still stored
C29_Witness ==
  \E r \in Req :
    /\ req[r].kind = "suggest" /\ req[r].pc = "done" /\ req[r].failed = "corpus"
    /\ req[r].status = 500
    /\ SUGGEST_CACHE.value # Null /\ SUGGEST_CACHE.value.ts = 0
    /\ now = 5 * 60 * 1000

\* C26: a suggest request that starts after the handler of the latest
\* successful POST /api/parallels has emptied the cache is not served from
\* a stored snapshot whose corpus query was issued before that INSERT.
C26_NoSnapshotFromBeforeWrite ==
  [][\A r \in Req :
       (/\ suggestCallsCache(r)
        /\ stale.pending = 0
        /\ req'[r].pc # "corpusQuery") =>
         ~stale.value]_vars

====
